---- MODULE Spec2Model ----
(***************************************************************************)
(* Model of the ADS connection hub (homeassistant/components/ads/hub.py):  *)
(* the device list, the notification registry, the lock, the wrapped       *)
(* client connection, and the threads that call into the hub.              *)
(***************************************************************************)
EXTENDS Integers, Sequences, FiniteSets, TLC

\* ------------------------------------------------------------------ bounds

\* Calls into the hub (hub methods called, notifications delivered) in one run
\* of concurrent callers.
MaxCalls == 3

\* Calls into the hub in one run of callers that call one at a time.
MaxSerialCalls == 4

\* Length of the string payloads and raw payloads the decoding is applied to.
MaxPayloadLen == 3

\* ------------------------------------------------------------ type tags
\* The PLC type tags are the ctypes classes pyads binds its PLCTYPE_ names
\* to; two names bound to the same class are the same dictionary key.

PLCTYPE_BOOL == "c_bool"
PLCTYPE_BYTE == "c_ubyte"
PLCTYPE_INT == "c_int16"
PLCTYPE_UINT == "c_uint16"
PLCTYPE_SINT == "c_int8"
PLCTYPE_USINT == "c_ubyte"
PLCTYPE_DINT == "c_int32"
PLCTYPE_UDINT == "c_uint32"
PLCTYPE_WORD == "c_uint16"
PLCTYPE_DWORD == "c_uint32"
PLCTYPE_LREAL == "c_double"
PLCTYPE_REAL == "c_float"
PLCTYPE_STRING == "c_char"
PLCTYPE_TOD == "c_int32"
PLCTYPE_DATE == "c_uint32"
PLCTYPE_DT == "c_uint32"
PLCTYPE_TIME == "c_uint32"

\* A ctypes type that is none of the tags above (a two-byte array).
PLCTYPE_ARR2 == "c_ubyte_Array_2"

\* ctypes.sizeof(plc_datatype)
Sizeof(plc_datatype) ==
    CASE plc_datatype \in {"c_bool", "c_ubyte", "c_int8", "c_char"} -> 1
      [] plc_datatype \in {"c_int16", "c_uint16", "c_ubyte_Array_2"} -> 2
      [] plc_datatype \in {"c_int32", "c_uint32", "c_float"} -> 4
      [] plc_datatype = "c_double" -> 8

\* ---------------------------------------------------------------- values
\* A decoded value: an integer x is held as hi * 65536 + lo with
\* 0 <= lo < 65536; a string, a bytearray and a float's bit pattern are held
\* in s.

Value(kind, hi, lo, s) == [kind |-> kind, hi |-> hi, lo |-> lo, s |-> s]

IntValue(x) == Value("int", x \div 65536, x % 65536, <<>>)

StructError == Value("struct.error", 0, 0, <<>>)

\* Little-endian unsigned value of at most two bytes.
LEU(data) ==
    IF Len(data) = 0 THEN 0
    ELSE IF Len(data) = 1 THEN data[1]
    ELSE data[1] + 256 * data[2]

\* struct.calcsize(fmt)
CalcSize(fmt) ==
    CASE fmt \in {"<?", "<b", "<B"} -> 1
      [] fmt \in {"<h", "<H"} -> 2
      [] fmt \in {"<i", "<I", "<f"} -> 4
      [] fmt = "<d" -> 8

\* struct.unpack(fmt, data)[0]
Unpack(fmt, data) ==
    IF Len(data) # CalcSize(fmt) THEN StructError
    ELSE CASE fmt = "<?" -> Value("bool", 0, IF data[1] # 0 THEN 1 ELSE 0, <<>>)
           [] fmt = "<B" -> IntValue(data[1])
           [] fmt = "<b" -> IntValue(IF data[1] >= 128 THEN data[1] - 256 ELSE data[1])
           [] fmt = "<H" -> IntValue(LEU(data))
           [] fmt = "<h" -> IntValue(IF LEU(data) >= 32768 THEN LEU(data) - 65536
                                     ELSE LEU(data))
           [] fmt = "<I" -> Value("int", LEU(SubSeq(data, 3, 4)), LEU(SubSeq(data, 1, 2)), <<>>)
           [] fmt = "<i" -> Value("int",
                                  IF LEU(SubSeq(data, 3, 4)) >= 32768
                                  THEN LEU(SubSeq(data, 3, 4)) - 65536
                                  ELSE LEU(SubSeq(data, 3, 4)),
                                  LEU(SubSeq(data, 1, 2)), <<>>)
           [] fmt = "<f" -> Value("float32", 0, 0, data)
           [] fmt = "<d" -> Value("float64", 0, 0, data)

\* The dict display of unpack_formats, in source order.
UnpackFormatsDisplay ==
    << <<PLCTYPE_BYTE, "<b">>,
       <<PLCTYPE_INT, "<h">>,
       <<PLCTYPE_UINT, "<H">>,
       <<PLCTYPE_SINT, "<b">>,
       <<PLCTYPE_USINT, "<B">>,
       <<PLCTYPE_DINT, "<i">>,
       <<PLCTYPE_UDINT, "<I">>,
       <<PLCTYPE_WORD, "<H">>,
       <<PLCTYPE_DWORD, "<I">>,
       <<PLCTYPE_LREAL, "<d">>,
       <<PLCTYPE_REAL, "<f">>,
       <<PLCTYPE_TOD, "<i">>,
       <<PLCTYPE_DATE, "<i">>,
       <<PLCTYPE_DT, "<i">>,
       <<PLCTYPE_TIME, "<i">> >>

\* plc_datatype in unpack_formats
InUnpackFormats(plc_datatype) ==
    \E i \in 1..Len(UnpackFormatsDisplay) : UnpackFormatsDisplay[i][1] = plc_datatype

\* unpack_formats[plc_datatype]: a later entry of the display replaces an
\* earlier one with an equal key.
UnpackFormat(plc_datatype) ==
    LET last == CHOOSE i \in 1..Len(UnpackFormatsDisplay) :
                   /\ UnpackFormatsDisplay[i][1] = plc_datatype
                   /\ \A j \in (i + 1)..Len(UnpackFormatsDisplay) :
                          UnpackFormatsDisplay[j][1] # plc_datatype
    IN UnpackFormatsDisplay[last][2]

\* SplitAtNull, had the handler taken the zero bytes out of the payload
\* and kept the rest.
SplitAtNull_DropsZeros(data) == SelectSeq(data, LAMBDA b : b # 0)

\* bytearray(data).split(b"\x00", 1)[0]
RECURSIVE SplitAtNull(_)
SplitAtNull(data) ==
    IF data = <<>> \/ Head(data) = 0 THEN <<>>
    ELSE <<Head(data)>> \o SplitAtNull(Tail(data))

IsCont(b) == b >= 128 /\ b <= 191

\* Length of the UTF-8 sequence a lead byte announces (0: not a lead byte).
Utf8Need(b) ==
    IF b < 128 THEN 1
    ELSE IF b >= 194 /\ b <= 223 THEN 2
    ELSE IF b >= 224 /\ b <= 239 THEN 3
    ELSE IF b >= 240 /\ b <= 244 THEN 4
    ELSE 0

\* The range the second byte of a sequence must lie in.
Utf8SecondOk(lead, b) ==
    CASE lead = 224 -> b >= 160 /\ b <= 191
      [] lead = 237 -> b >= 128 /\ b <= 159
      [] lead = 240 -> b >= 144 /\ b <= 191
      [] lead = 244 -> b >= 128 /\ b <= 143
      [] OTHER -> IsCont(b)

\* Number of bytes of the sequence starting at data[1] that are well formed
\* (the lead byte and the continuation bytes that follow it correctly).
Utf8Good(data) ==
    LET need == Utf8Need(data[1])
        ok(k) == /\ k <= Len(data)
                 /\ IF k = 2 THEN Utf8SecondOk(data[1], data[k]) ELSE IsCont(data[k])
    IN IF need <= 1 THEN 1
       ELSE IF ~ok(2) THEN 1
       ELSE IF need = 2 THEN 2
       ELSE IF ~ok(3) THEN 2
       ELSE IF need = 3 THEN 3
       ELSE IF ~ok(4) THEN 3
       ELSE 4

\* The code point of the well-formed sequence data[1..need].
Utf8CodePoint(data, need) ==
    CASE need = 1 -> data[1]
      [] need = 2 -> (data[1] - 192) * 64 + (data[2] - 128)
      [] need = 3 -> (data[1] - 224) * 4096 + (data[2] - 128) * 64 + (data[3] - 128)
      [] need = 4 -> (data[1] - 240) * 262144 + (data[2] - 128) * 4096
                       + (data[3] - 128) * 64 + (data[4] - 128)

\* bytes.decode("utf-8", errors="ignore"): a well-formed sequence becomes one
\* character (its code point), a malformed one is dropped.
RECURSIVE Utf8DecodeIgnore(_)
Utf8DecodeIgnore(data) ==
    IF data = <<>> THEN <<>>
    ELSE LET need == Utf8Need(data[1])
             good == Utf8Good(data)
         IN IF need # 0 /\ good = need
            THEN <<Utf8CodePoint(data, need)>>
                     \o Utf8DecodeIgnore(SubSeq(data, need + 1, Len(data)))
            ELSE Utf8DecodeIgnore(SubSeq(data, good + 1, Len(data)))

\* Decode, had the handler read a payload of a type it does not know as a
\* string.
Decode_UnknownAsString(plc_datatype, data) ==
    IF plc_datatype = PLCTYPE_BOOL THEN Unpack("<?", data)
    ELSE IF InUnpackFormats(plc_datatype) THEN Unpack(UnpackFormat(plc_datatype), data)
    ELSE Value("str", 0, 0, Utf8DecodeIgnore(SplitAtNull(data)))

\* The value the notification handler computes from the payload.
Decode(plc_datatype, data) ==
    IF plc_datatype = PLCTYPE_BOOL THEN Unpack("<?", data)
    ELSE IF plc_datatype = PLCTYPE_STRING
         THEN Value("str", 0, 0, Utf8DecodeIgnore(SplitAtNull(data)))
    ELSE IF InUnpackFormats(plc_datatype) THEN Unpack(UnpackFormat(plc_datatype), data)
    ELSE Value("bytearray", 0, 0, data)


\* ------------------------------------------------------------------ inputs

Workers == {"w1", "w2"}

\* The client library's own thread, which delivers the notifications.
Notifier == "ads"

Threads == Workers \cup {Notifier}

Names == {"d1", "d2"}

\* The (name, plc_datatype, callback) triples the entities subscribe with.
SubRequests ==
    { [name |-> "d1", plc_datatype |-> PLCTYPE_BOOL, callback |-> "cb1"],
      [name |-> "d1", plc_datatype |-> PLCTYPE_INT, callback |-> "cb2"],
      [name |-> "d2", plc_datatype |-> PLCTYPE_STRING, callback |-> "cb3"],
      [name |-> "d2", plc_datatype |-> PLCTYPE_ARR2, callback |-> "cb4"] }

\* The hub method a subscriber callback calls on the hub while it runs ("":
\* none).
CallbackCalls(callback) ==
    CASE callback = "cb1" -> "read_by_name"
      [] callback = "cb3" -> "write_by_name"
      [] OTHER -> ""

SampleBytes == {0, 65, 200}

\* The payloads of a given width the controller sends.
RECURSIVE Payloads(_)
Payloads(n) ==
    IF n = 0 THEN {<<>>}
    ELSE {Append(s, b) : s \in Payloads(n - 1), b \in SampleBytes}

\* A handle the client never hands out.
UnknownHandle == MaxCalls + MaxSerialCalls + 1

Free == "free"

\* ------------------------------------------------------------------- state

VARIABLES
    devices,             \* self._devices: the list of registered devices
    notification_items,  \* self._notification_items: hnotify -> NotificationItem
    lock,                \* self._lock: its holder, or Free
    client,              \* the wrapped pyads connection
    pc,                  \* each thread's position in the hub method it runs
    op,                  \* the hub method each thread was called with
    arg,                 \* its arguments
    item,                \* its local notification_item
    iter,                \* its dict iterator (shutdown)
    ret,                 \* what the call returned or raised
    called,              \* whether the call has entered the client library
    wrote,               \* whether the call has changed the hub's sets
    calls,               \* the subscriber callbacks the running handler invoked
    shutHandles,         \* the handles still stored when a shutdown() returned
    ncalls,              \* calls into the hub so far
    serial,              \* whether the callers make their calls one at a time
    hass                 \* the host: its data, listeners, services, and the setup

hubVars == <<devices, notification_items, lock, client>>
vars == <<devices, notification_items, lock, client, pc, op, arg, item, iter, ret,
          called, wrote, calls, shutHandles, ncalls, serial, hass>>

NotificationItem(hnotify, huser, name, plc_datatype, callback) ==
    [hnotify |-> hnotify, huser |-> huser, name |-> name,
     plc_datatype |-> plc_datatype, callback |-> callback]

\* None, as the value of a local that holds a NotificationItem.
NoItem == NotificationItem(0, 0, "", "", "")

NoArg == [name |-> "", plc_datatype |-> "", callback |-> "", hnotify |-> 0, data |-> <<>>]

NameArg(name) == [NoArg EXCEPT !.name = name]

NoIter == [used |-> 0, pos |-> 0]

Running == "running"

Exceptions == {"ValueError", "RuntimeError", "struct.error", "ADSError", "KeyError"}

\* The user handle the client returns with a notification handle.
UserHandle(name) == IF name = "d1" THEN 1 ELSE 2

\* The host before async_setup_ads_integration has run: no hub exists.
HassBeforeSetup ==
    [setup |-> Running, hub |-> FALSE, data |-> {}, listeners |-> {}, services |-> {},
     stops |-> 0]

\* The host after async_setup_ads_integration has returned True.
HassAfterSetup ==
    [setup |-> "True", hub |-> TRUE, data |-> {"DATA_ADS"},
     listeners |-> {"EVENT_HOMEASSISTANT_STOP"},
     services |-> {"SERVICE_WRITE_DATA_BY_NAME"}, stops |-> 0]

Init ==
    /\ devices = <<>>
    /\ notification_items = <<>>
    /\ lock = Free
    /\ client = [handles |-> 0, removed |-> {}, twice |-> {}, closes |-> 0]
    /\ pc = [t \in Threads |-> "idle"]
    /\ op = [t \in Threads |-> ""]
    /\ arg = [t \in Threads |-> NoArg]
    /\ item = [t \in Threads |-> NoItem]
    /\ iter = [t \in Threads |-> NoIter]
    /\ ret = [t \in Threads |-> Running]
    /\ called = [t \in Threads |-> FALSE]
    /\ wrote = [t \in Threads |-> FALSE]
    /\ calls = <<>>
    /\ shutHandles = {}
    /\ ncalls = 0
    /\ serial = FALSE
    /\ hass = HassAfterSetup

\* The same hub, its callers making their calls one at a time.
InitSeq ==
    /\ devices = <<>>
    /\ notification_items = <<>>
    /\ lock = Free
    /\ client = [handles |-> 0, removed |-> {}, twice |-> {}, closes |-> 0]
    /\ pc = [t \in Threads |-> "idle"]
    /\ op = [t \in Threads |-> ""]
    /\ arg = [t \in Threads |-> NoArg]
    /\ item = [t \in Threads |-> NoItem]
    /\ iter = [t \in Threads |-> NoIter]
    /\ ret = [t \in Threads |-> Running]
    /\ called = [t \in Threads |-> FALSE]
    /\ wrote = [t \in Threads |-> FALSE]
    /\ calls = <<>>
    /\ shutHandles = {}
    /\ ncalls = 0
    /\ serial = TRUE
    /\ hass = HassAfterSetup

\* ----------------------------------------------------------------- helpers

\* The positions at which a thread is inside a call of the client library.
ClientCallPcs ==
    {"read_call", "write_call", "add_call", "del_call", "shut_del_call", "shut_close_call"}

\* What a step of t's call shows of it from outside: whether the call has by
\* now entered the client library, and whether it has changed the hub's sets.
Observe(t) ==
    /\ called' = [called EXCEPT ![t] =
                     /\ pc'[t] # "idle"
                     /\ (pc[t] # "idle" /\ @) \/ pc'[t] \in ClientCallPcs]
    /\ wrote' = [wrote EXCEPT ![t] =
                    /\ pc'[t] # "idle"
                    /\ \/ pc[t] # "idle" /\ @
                       \/ devices' # devices
                       \/ notification_items' # notification_items]

\* A method is called on thread t: its frame is set up.
Enter(t, method, label, a) ==
    /\ hass.hub
    /\ pc[t] = "idle"
    /\ serial => \A u \in Threads : pc[u] = "idle"
    /\ ncalls < (IF serial THEN MaxSerialCalls ELSE MaxCalls)
    /\ ncalls' = ncalls + 1
    /\ pc' = [pc EXCEPT ![t] = label]
    /\ op' = [op EXCEPT ![t] = method]
    /\ arg' = [arg EXCEPT ![t] = a]
    /\ UNCHANGED <<hubVars, item, iter, ret, calls, shutHandles, serial>>
    /\ Observe(t)

\* A hub method is called on thread t by an entity or by the client library.
Start(t, method, label, a) ==
    /\ Enter(t, method, label, a)
    /\ UNCHANGED hass

\* The method running on t returns r (or raises it).
Finish(t, r) ==
    /\ pc' = [pc EXCEPT ![t] = "done"]
    /\ ret' = [ret EXCEPT ![t] = r]

\* with self._lock: (entry)
Acquire(t) ==
    /\ lock = Free
    /\ lock' = t

\* with self._lock: (exit)
Release(t) ==
    lock' = Free

\* The outcomes of a call into the client library.
ClientResults == {"ok", "ADSError"}

\* The client after its del_device_notification was entered for handle h:
\* it keeps the handles a removal was issued for, and those it was issued
\* for more than once.
ClientDel(c, h) ==
    [c EXCEPT !.removed = @ \cup {h},
              !.twice = IF h \in c.removed THEN @ \cup {h} ELSE @]

\* dict.pop(h, None)
Pop(d, h) == [k \in (DOMAIN d) \ {h} |-> d[k]]

\* FirstByName, had the loop assigned notification_item before testing the
\* name: without a match it ends on the last item.
FirstByName_LastSeen(d, device) ==
    LET hs == {h \in DOMAIN d : d[h].name = device}
    IN IF hs # {} THEN d[CHOOSE h \in hs : \A k \in hs : h <= k]
       ELSE IF DOMAIN d = {} THEN NoItem
       ELSE d[CHOOSE h \in DOMAIN d : \A k \in DOMAIN d : h >= k]

\* The first item of the dict, in iteration order, whose name is device
\* (handles are handed out in increasing order, so insertion order is handle
\* order).
FirstByName(d, device) ==
    LET hs == {h \in DOMAIN d : d[h].name = device}
    IN IF hs = {} THEN NoItem
       ELSE d[CHOOSE h \in hs : \A k \in hs : h <= k]

\* list.remove(x): the list without its first x.
RECURSIVE Remove(_, _)
Remove(list, x) ==
    IF list = <<>> THEN <<>>
    ELSE IF Head(list) = x THEN Tail(list)
    ELSE <<Head(list)>> \o Remove(Tail(list), x)

\* x in list
In(x, list) == \E i \in 1..Len(list) : list[i] = x

\* --------------------------------------------------- read_by_name, write_by_name

CallRead(t) ==
    Start(t, "read_by_name", "read_lock", NoArg)

\* read_by_name or write_by_name returns r: to its caller, or into the
\* subscriber callback that called it, after which the callback and the
\* notification handler return.
ReadWriteFinish(t, r) ==
    Finish(t, IF op[t] = "_device_notification_callback" THEN "None" ELSE r)

\* ReadLock, had read_by_name not taken the lock around the client call.
ReadLock_NoLock(t) ==
    /\ pc[t] = "read_lock"
    /\ pc' = [pc EXCEPT ![t] = "read_call"]
    /\ UNCHANGED <<devices, notification_items, lock, client, op, arg, item, iter, ret,
                   calls, shutHandles, ncalls, serial, hass>>
    /\ Observe(t)

\* with self._lock: the client call is entered holding the lock.
ReadLock(t) ==
    /\ pc[t] = "read_lock"
    /\ Acquire(t)
    /\ pc' = [pc EXCEPT ![t] = "read_call"]
    /\ UNCHANGED <<devices, notification_items, client, op, arg, item, iter, ret,
                   calls, shutHandles, ncalls, serial, hass>>
    /\ Observe(t)

\* ReadReturn, had read_by_name not caught ADSError.
ReadReturn_Propagates(t) ==
    /\ pc[t] = "read_call"
    /\ \E res \in ClientResults :
           Finish(t, IF res = "ok" THEN "value" ELSE "ADSError")
    /\ Release(t)
    /\ UNCHANGED <<devices, notification_items, client, op, arg, item, iter,
                   calls, shutHandles, ncalls, serial, hass>>
    /\ Observe(t)

\* The client call returns or raises ADSError, which is logged.
ReadReturn(t) ==
    /\ pc[t] = "read_call"
    /\ \E res \in ClientResults :
           ReadWriteFinish(t, IF res = "ok" THEN "value" ELSE "None")
    /\ Release(t)
    /\ UNCHANGED <<devices, notification_items, client, op, arg, item, iter,
                   calls, shutHandles, ncalls, serial, hass>>
    /\ Observe(t)

CallWrite(t) ==
    Start(t, "write_by_name", "write_lock", NoArg)

WriteLock(t) ==
    /\ pc[t] = "write_lock"
    /\ Acquire(t)
    /\ pc' = [pc EXCEPT ![t] = "write_call"]
    /\ UNCHANGED <<devices, notification_items, client, op, arg, item, iter, ret,
                   calls, shutHandles, ncalls, serial, hass>>
    /\ Observe(t)

\* WriteReturn, had the error path left the method with the lock held.
WriteReturn_KeepsLock(t) ==
    /\ pc[t] = "write_call"
    /\ \E res \in ClientResults :
           /\ ReadWriteFinish(t, IF res = "ok" THEN "value" ELSE "None")
           /\ lock' = IF res = "ok" THEN Free ELSE lock
    /\ UNCHANGED <<devices, notification_items, client, op, arg, item, iter,
                   calls, shutHandles, ncalls, serial, hass>>
    /\ Observe(t)

WriteReturn(t) ==
    /\ pc[t] = "write_call"
    /\ \E res \in ClientResults :
           ReadWriteFinish(t, IF res = "ok" THEN "value" ELSE "None")
    /\ Release(t)
    /\ UNCHANGED <<devices, notification_items, client, op, arg, item, iter,
                   calls, shutHandles, ncalls, serial, hass>>
    /\ Observe(t)

\* ------------------------------------------------------ add_device_notification

CallAdd(t) ==
    \E r \in SubRequests :
        Start(t, "add_device_notification", "add_lock",
              [NoArg EXCEPT !.name = r.name, !.plc_datatype = r.plc_datatype,
                            !.callback = r.callback])

AddLock(t) ==
    /\ pc[t] = "add_lock"
    /\ Acquire(t)
    /\ pc' = [pc EXCEPT ![t] = "add_call"]
    /\ UNCHANGED <<devices, notification_items, client, op, arg, item, iter, ret,
                   calls, shutHandles, ncalls, serial, hass>>
    /\ Observe(t)

\* AddClientReturn, had the lock been released between the client call and
\* the storing of the record.
AddClientReturn_ReleasesLock(t) ==
    /\ pc[t] = "add_call"
    /\ \E res \in ClientResults :
           IF res = "ok"
           THEN /\ client' = [client EXCEPT !.handles = @ + 1]
                /\ item' = [item EXCEPT ![t] =
                               NotificationItem(client.handles + 1,
                                                UserHandle(arg[t].name),
                                                arg[t].name, arg[t].plc_datatype,
                                                arg[t].callback)]
                /\ pc' = [pc EXCEPT ![t] = "add_store"]
                /\ Release(t)
                /\ UNCHANGED ret
           ELSE /\ Finish(t, "None")
                /\ Release(t)
                /\ UNCHANGED <<client, item>>
    /\ UNCHANGED <<devices, notification_items, op, arg, iter, calls,
                   shutHandles, ncalls, serial, hass>>
    /\ Observe(t)

\* AddClientReturn, had the error path left the method with the lock held.
AddClientReturn_KeepsLock(t) ==
    /\ pc[t] = "add_call"
    /\ \E res \in ClientResults :
           IF res = "ok"
           THEN /\ client' = [client EXCEPT !.handles = @ + 1]
                /\ item' = [item EXCEPT ![t] =
                               NotificationItem(client.handles + 1,
                                                UserHandle(arg[t].name),
                                                arg[t].name, arg[t].plc_datatype,
                                                arg[t].callback)]
                /\ pc' = [pc EXCEPT ![t] = "add_store"]
                /\ UNCHANGED <<lock, ret>>
           ELSE /\ Finish(t, "None")
                /\ UNCHANGED <<lock, client, item>>
    /\ UNCHANGED <<devices, notification_items, op, arg, iter, calls,
                   shutHandles, ncalls, serial, hass>>
    /\ Observe(t)

\* The client creates the notification and returns (hnotify, huser), or
\* raises ADSError: the error is logged and the with block is left.
AddClientReturn(t) ==
    /\ pc[t] = "add_call"
    /\ \E res \in ClientResults :
           IF res = "ok"
           THEN /\ client' = [client EXCEPT !.handles = @ + 1]
                /\ item' = [item EXCEPT ![t] =
                               NotificationItem(client.handles + 1,
                                                UserHandle(arg[t].name),
                                                arg[t].name, arg[t].plc_datatype,
                                                arg[t].callback)]
                /\ pc' = [pc EXCEPT ![t] = "add_store"]
                /\ UNCHANGED <<lock, ret>>
           ELSE /\ Finish(t, "None")
                /\ Release(t)
                /\ UNCHANGED <<client, item>>
    /\ UNCHANGED <<devices, notification_items, op, arg, iter, calls,
                   shutHandles, ncalls, serial, hass>>
    /\ Observe(t)

\* AddStore, had the store replaced the dict by one holding the new record.
AddStore_Only(t) ==
    /\ pc[t] = "add_store"
    /\ notification_items' = (item[t].hnotify :> item[t])
    /\ Finish(t, "None")
    /\ Release(t)
    /\ UNCHANGED <<devices, client, op, arg, item, iter, calls, shutHandles, ncalls,
                   serial, hass>>
    /\ Observe(t)

\* self._notification_items[hnotify] = NotificationItem(...), then the with
\* block is left.
AddStore(t) ==
    /\ pc[t] = "add_store"
    /\ notification_items' = (item[t].hnotify :> item[t]) @@ notification_items
    /\ Finish(t, "None")
    /\ Release(t)
    /\ UNCHANGED <<devices, client, op, arg, item, iter, calls, shutHandles, ncalls, serial, hass>>
    /\ Observe(t)

\* ------------------------------------------------------ del_device_notification

CallDel(t) ==
    \E name \in Names : Start(t, "del_device_notification", "del_lock", NameArg(name))

\* del_device_notification returns: to its caller, or into unregister_device.
DelFinish(t) ==
    IF op[t] = "unregister_device"
    THEN /\ pc' = [pc EXCEPT ![t] = "unreg_remove"]
         /\ UNCHANGED ret
    ELSE Finish(t, "None")

DelLock(t) ==
    /\ pc[t] = "del_lock"
    /\ Acquire(t)
    /\ pc' = [pc EXCEPT ![t] = "del_lookup"]
    /\ UNCHANGED <<devices, notification_items, client, op, arg, item, iter, ret,
                   calls, shutHandles, ncalls, serial, hass>>
    /\ Observe(t)

\* The loop over the items under the lock; the lock is released; without a
\* match the method returns, with one the client call is entered.
DelLookup(t) ==
    /\ pc[t] = "del_lookup"
    /\ Release(t)
    /\ LET found == FirstByName(notification_items, arg[t].name)
       IN IF found = NoItem
          THEN /\ DelFinish(t)
               /\ UNCHANGED <<item, client>>
          ELSE /\ item' = [item EXCEPT ![t] = found]
               /\ pc' = [pc EXCEPT ![t] = "del_call"]
               /\ client' = ClientDel(client, found.hnotify)
               /\ UNCHANGED ret
    /\ UNCHANGED <<devices, notification_items, op, arg, iter, calls, shutHandles,
                   ncalls, serial, hass>>
    /\ Observe(t)

\* DelClientReturn, had the method returned after logging the ADSError.
DelClientReturn_ErrorReturns(t) ==
    /\ pc[t] = "del_call"
    /\ \E res \in ClientResults :
           IF res = "ok"
           THEN /\ pc' = [pc EXCEPT ![t] = "del_pop_lock"]
                /\ UNCHANGED ret
           ELSE DelFinish(t)
    /\ UNCHANGED <<hubVars, op, arg, item, iter, calls, shutHandles, ncalls, serial, hass>>
    /\ Observe(t)

\* The client's del_device_notification returns or raises ADSError (logged):
\* either way the method goes on to delete its record.
DelClientReturn(t) ==
    /\ pc[t] = "del_call"
    /\ pc' = [pc EXCEPT ![t] = "del_pop_lock"]
    /\ UNCHANGED <<hubVars, op, arg, item, iter, ret, calls, shutHandles, ncalls, serial, hass>>
    /\ Observe(t)

DelPopLock(t) ==
    /\ pc[t] = "del_pop_lock"
    /\ Acquire(t)
    /\ pc' = [pc EXCEPT ![t] = "del_pop"]
    /\ UNCHANGED <<devices, notification_items, client, op, arg, item, iter, ret,
                   calls, shutHandles, ncalls, serial, hass>>
    /\ Observe(t)

\* self._notification_items.pop(notification_item.hnotify, None)
DelPop(t) ==
    /\ pc[t] = "del_pop"
    /\ notification_items' = Pop(notification_items, item[t].hnotify)
    /\ Release(t)
    /\ DelFinish(t)
    /\ UNCHANGED <<devices, client, op, arg, item, iter, calls, shutHandles, ncalls, serial, hass>>
    /\ Observe(t)

\* ------------------------------------------- register_device, unregister_device

CallRegister(t) ==
    \E name \in Names : Start(t, "register_device", "reg_check", NameArg(name))

\* RegCheck, had register_device not tested for the device.
RegCheck_NoTest(t) ==
    /\ pc[t] = "reg_check"
    /\ pc' = [pc EXCEPT ![t] = "reg_append"]
    /\ UNCHANGED <<hubVars, ret, op, arg, item, iter, calls, shutHandles, ncalls, serial, hass>>
    /\ Observe(t)

\* if device not in self._devices:
RegCheck(t) ==
    /\ pc[t] = "reg_check"
    /\ IF In(arg[t].name, devices)
       THEN Finish(t, "None")
       ELSE /\ pc' = [pc EXCEPT ![t] = "reg_append"]
            /\ UNCHANGED ret
    /\ UNCHANGED <<hubVars, op, arg, item, iter, calls, shutHandles, ncalls, serial, hass>>
    /\ Observe(t)

\* self._devices.append(device)
RegAppend(t) ==
    /\ pc[t] = "reg_append"
    /\ devices' = Append(devices, arg[t].name)
    /\ Finish(t, "None")
    /\ UNCHANGED <<notification_items, lock, client, op, arg, item, iter,
                   calls, shutHandles, ncalls, serial, hass>>
    /\ Observe(t)

\* CallUnregister, had unregister_device gone straight to removing the device.
CallUnregister_RemoveOnly(t) ==
    \E name \in Names : Start(t, "unregister_device", "unreg_remove", NameArg(name))

CallUnregister(t) ==
    \E name \in Names : Start(t, "unregister_device", "unreg_check", NameArg(name))

\* UnregCheck, had unregister_device not tested for the device.
UnregCheck_NoTest(t) ==
    /\ pc[t] = "unreg_check"
    /\ pc' = [pc EXCEPT ![t] = "del_lock"]
    /\ UNCHANGED <<hubVars, ret, op, arg, item, iter, calls, shutHandles, ncalls, serial, hass>>
    /\ Observe(t)

\* if device in self._devices: del_device_notification is called; else a
\* warning is logged.
UnregCheck(t) ==
    /\ pc[t] = "unreg_check"
    /\ IF In(arg[t].name, devices)
       THEN /\ pc' = [pc EXCEPT ![t] = "del_lock"]
            /\ UNCHANGED ret
       ELSE Finish(t, "None")
    /\ UNCHANGED <<hubVars, op, arg, item, iter, calls, shutHandles, ncalls, serial, hass>>
    /\ Observe(t)

\* self._devices.remove(device): ValueError when the device is not there.
UnregRemove(t) ==
    /\ pc[t] = "unreg_remove"
    /\ IF In(arg[t].name, devices)
       THEN /\ devices' = Remove(devices, arg[t].name)
            /\ Finish(t, "None")
       ELSE /\ Finish(t, "ValueError")
            /\ UNCHANGED devices
    /\ UNCHANGED <<notification_items, lock, client, op, arg, item, iter,
                   calls, shutHandles, ncalls, serial, hass>>
    /\ Observe(t)

\* -------------------------------------------------------------------- shutdown

\* The host fires EVENT_HOMEASSISTANT_STOP, which it does once: the listener
\* registered by the setup, the hub's shutdown, is called.
CallShutdown(t) ==
    /\ "EVENT_HOMEASSISTANT_STOP" \in hass.listeners
    /\ hass.stops = 0
    /\ hass' = [hass EXCEPT !.stops = 1]
    /\ Enter(t, "shutdown", "shut_iter", NoArg)

\* shutdown raises e: to its caller, or into async_unload_entry, which logs it
\* and returns False.
ShutRaise(t, e) ==
    Finish(t, IF op[t] = "async_unload_entry" THEN "False" ELSE e)

\* for notification_item in self._notification_items.values(): the iterator
\* is created; it remembers the size of the dict.
ShutIter(t) ==
    /\ pc[t] = "shut_iter"
    /\ iter' = [iter EXCEPT ![t] = [used |-> Cardinality(DOMAIN notification_items),
                                    pos |-> 0]]
    /\ pc' = [pc EXCEPT ![t] = "shut_next"]
    /\ UNCHANGED <<hubVars, op, arg, item, ret, calls, shutHandles, ncalls, serial, hass>>
    /\ Observe(t)

\* The items the iterator has still to yield.
IterRest(t) == {h \in DOMAIN notification_items : h > iter[t].pos}

\* The iterator's next(): RuntimeError when the dict changed size, the next
\* item (for which the client's del_device_notification is entered), or the
\* end of the loop (after which the client's close() is entered).
ShutNext(t) ==
    /\ pc[t] = "shut_next"
    /\ IF Cardinality(DOMAIN notification_items) # iter[t].used
       THEN /\ ShutRaise(t, "RuntimeError")
            /\ UNCHANGED <<item, iter, client>>
       ELSE IF IterRest(t) = {}
       THEN /\ pc' = [pc EXCEPT ![t] = "shut_close_call"]
            /\ client' = [client EXCEPT !.closes = @ + 1]
            /\ UNCHANGED <<item, iter, ret>>
       ELSE LET h == CHOOSE k \in IterRest(t) : \A j \in IterRest(t) : k <= j
            IN /\ item' = [item EXCEPT ![t] = notification_items[h]]
               /\ iter' = [iter EXCEPT ![t].pos = h]
               /\ pc' = [pc EXCEPT ![t] = "shut_del_call"]
               /\ client' = ClientDel(client, h)
               /\ UNCHANGED ret
    /\ UNCHANGED <<devices, notification_items, lock, op, arg, calls, shutHandles,
                   ncalls, serial, hass>>
    /\ Observe(t)

\* ShutDelReturn, had shutdown not caught the ADSError of a removal.
ShutDelReturn_Propagates(t) ==
    /\ pc[t] = "shut_del_call"
    /\ \E res \in ClientResults :
           IF res = "ok"
           THEN /\ pc' = [pc EXCEPT ![t] = "shut_next"]
                /\ UNCHANGED ret
           ELSE Finish(t, "ADSError")
    /\ UNCHANGED <<hubVars, op, arg, item, iter, calls, shutHandles, ncalls, serial, hass>>
    /\ Observe(t)

\* The client's del_device_notification returns or raises ADSError (logged):
\* either way the loop goes on.
ShutDelReturn(t) ==
    /\ pc[t] = "shut_del_call"
    /\ pc' = [pc EXCEPT ![t] = "shut_next"]
    /\ UNCHANGED <<hubVars, op, arg, item, iter, ret, calls, shutHandles, ncalls, serial, hass>>
    /\ Observe(t)

\* The client's close() returns or raises ADSError (logged): either way
\* shutdown returns, to its caller or into async_unload_entry.
ShutCloseReturn(t) ==
    /\ pc[t] = "shut_close_call"
    /\ IF op[t] = "async_unload_entry"
       THEN /\ pc' = [pc EXCEPT ![t] = "unload_del"]
            /\ UNCHANGED ret
       ELSE Finish(t, "None")
    /\ shutHandles' = shutHandles \cup DOMAIN notification_items
    /\ UNCHANGED <<hubVars, op, arg, item, iter, calls, ncalls, serial, hass>>
    /\ Observe(t)

\* ------------------------------------------------ _device_notification_callback

\* The handles the client delivers a notification for: the ones it has handed
\* out, and one it has not.
Deliverable == (1..client.handles) \cup {UnknownHandle}

\* The client library calls the handler on its thread with the handle of a
\* notification.
Deliver(t) ==
    /\ \E h \in Deliverable :
           Start(t, "_device_notification_callback", "notif_lock",
                 [NoArg EXCEPT !.hnotify = h])

NotifLock(t) ==
    /\ pc[t] = "notif_lock"
    /\ Acquire(t)
    /\ pc' = [pc EXCEPT ![t] = "notif_lookup"]
    /\ UNCHANGED <<devices, notification_items, client, op, arg, item, iter, ret,
                   calls, shutHandles, ncalls, serial, hass>>
    /\ Observe(t)

\* Get, had the lookup fallen back to the first stored item.
Get_OrFirst(d, h) ==
    IF h \in DOMAIN d THEN d[h]
    ELSE IF DOMAIN d = {} THEN NoItem
    ELSE d[CHOOSE k \in DOMAIN d : \A j \in DOMAIN d : k <= j]

\* self._notification_items.get(hnotify)
Get(d, h) == IF h \in DOMAIN d THEN d[h] ELSE NoItem

\* NotifLookup, had the handler kept the lock for the rest of its run.
NotifLookup_KeepsLock(t) ==
    /\ pc[t] = "notif_lookup"
    /\ LET found == Get(notification_items, arg[t].hnotify)
       IN IF found = NoItem
          THEN /\ Finish(t, "None")
               /\ Release(t)
               /\ UNCHANGED item
          ELSE /\ item' = [item EXCEPT ![t] = found]
               /\ pc' = [pc EXCEPT ![t] = "notif_decode"]
               /\ UNCHANGED <<ret, lock>>
    /\ UNCHANGED <<devices, notification_items, client, op, arg, iter, calls,
                   shutHandles, ncalls, serial, hass>>
    /\ Observe(t)

\* notification_item = self._notification_items.get(hnotify), the lock is
\* released; an unknown handle is logged and the handler returns.
NotifLookup(t) ==
    /\ pc[t] = "notif_lookup"
    /\ Release(t)
    /\ LET found == Get(notification_items, arg[t].hnotify)
       IN IF found = NoItem
          THEN /\ Finish(t, "None")
               /\ UNCHANGED item
          ELSE /\ item' = [item EXCEPT ![t] = found]
               /\ pc' = [pc EXCEPT ![t] = "notif_decode"]
               /\ UNCHANGED ret
    /\ UNCHANGED <<devices, notification_items, client, op, arg, iter, calls,
                   shutHandles, ncalls, serial, hass>>
    /\ Observe(t)

\* One invocation of a subscriber callback.
Invocation(callback, name, value) ==
    [callback |-> callback, name |-> name, value |-> value]

\* The subscriber callback runs on the handler's thread: it returns, and the
\* handler with it, or it calls read_by_name or write_by_name on the hub.
RunCallback(t, callback) ==
    CASE CallbackCalls(callback) = "read_by_name" ->
             /\ pc' = [pc EXCEPT ![t] = "read_lock"]
             /\ UNCHANGED ret
      [] CallbackCalls(callback) = "write_by_name" ->
             /\ pc' = [pc EXCEPT ![t] = "write_lock"]
             /\ UNCHANGED ret
      [] OTHER -> Finish(t, "None")

\* Dispatch, had the handler taken the item to call by name, not by handle.
Dispatch_ByName(t, data) ==
    LET named == FirstByName(notification_items, item[t].name)
        value == Decode(named.plc_datatype, data)
    IN IF value = StructError
       THEN /\ Finish(t, "struct.error")
            /\ UNCHANGED calls
       ELSE /\ calls' = Append(calls, Invocation(named.callback, named.name, value))
            /\ RunCallback(t, named.callback)

\* The handler's decoding and dispatch for the payload data.
Dispatch(t, data) ==
    LET value == Decode(item[t].plc_datatype, data)
    IN IF value = StructError
       THEN /\ Finish(t, "struct.error")
            /\ UNCHANGED calls
       ELSE /\ calls' = Append(calls, Invocation(item[t].callback, item[t].name, value))
            /\ RunCallback(t, item[t].callback)

\* bytearray(data) reads the payload, whose size is the one the subscription
\* asked for; it is decoded by the item's type and the item's callback is
\* called with (name, value); struct.error leaves the handler before that.
NotifDispatch(t) ==
    /\ pc[t] = "notif_decode"
    /\ \E data \in Payloads(Sizeof(item[t].plc_datatype)) :
           /\ arg' = [arg EXCEPT ![t].data = data]
           /\ Dispatch(t, data)
    /\ UNCHANGED <<hubVars, op, item, iter, shutHandles, ncalls, serial, hass>>
    /\ Observe(t)

\* ---------------------------------------------------------------------- next

\* The caller takes the result; the frame is dropped.
Return(t) ==
    /\ pc[t] = "done"
    /\ pc' = [pc EXCEPT ![t] = "idle"]
    /\ op' = [op EXCEPT ![t] = ""]
    /\ arg' = [arg EXCEPT ![t] = NoArg]
    /\ item' = [item EXCEPT ![t] = NoItem]
    /\ iter' = [iter EXCEPT ![t] = NoIter]
    /\ ret' = [ret EXCEPT ![t] = Running]
    /\ calls' = IF t = Notifier THEN <<>> ELSE calls
    /\ UNCHANGED <<hubVars, shutHandles, ncalls, serial, hass>>
    /\ Observe(t)

WorkerStep(t) ==
    \/ CallRead(t) \/ ReadLock(t) \/ ReadReturn(t)
    \/ CallWrite(t) \/ WriteLock(t) \/ WriteReturn(t)
    \/ CallAdd(t) \/ AddLock(t) \/ AddClientReturn(t) \/ AddStore(t)
    \/ CallDel(t) \/ DelLock(t) \/ DelLookup(t) \/ DelClientReturn(t)
    \/ DelPopLock(t) \/ DelPop(t)
    \/ CallRegister(t) \/ RegCheck(t) \/ RegAppend(t)
    \/ CallUnregister(t) \/ UnregCheck(t) \/ UnregRemove(t)
    \/ CallShutdown(t) \/ ShutIter(t) \/ ShutNext(t) \/ ShutDelReturn(t)
    \/ ShutCloseReturn(t)
    \/ Return(t)

NotifierStep(t) ==
    \/ Deliver(t) \/ NotifLock(t) \/ NotifLookup(t) \/ NotifDispatch(t)
    \/ ReadLock(t) \/ ReadReturn(t) \/ WriteLock(t) \/ WriteReturn(t)
    \/ Return(t)

Next ==
    \/ \E t \in Workers : WorkerStep(t)
    \/ NotifierStep(Notifier)

\* The hub called from any threads at once.
Spec == Init /\ [][Next]_vars

\* The hub called by one thread at a time: each call runs to its end before
\* the next begins.
SpecSeq == InitSeq /\ [][Next]_vars

\* A step of the call that runs on thread t: the thread is scheduled, the
\* client call it is in returns.
Advance(t) ==
    /\ pc[t] # "idle"
    /\ IF t = Notifier THEN NotifierStep(t) ELSE WorkerStep(t)

\* The hub called from any threads at once, each thread that can go on being
\* scheduled in the end and each client call returning.
SpecLive == Init /\ [][Next]_vars /\ \A t \in Threads : WF_vars(Advance(t))

\* ------------------------------------------------------------------- setup

\* The host before the setup, its callers calling one at a time once a hub
\* exists.
InitSetup ==
    /\ devices = <<>>
    /\ notification_items = <<>>
    /\ lock = Free
    /\ client = [handles |-> 0, removed |-> {}, twice |-> {}, closes |-> 0]
    /\ pc = [t \in Threads |-> "idle"]
    /\ op = [t \in Threads |-> ""]
    /\ arg = [t \in Threads |-> NoArg]
    /\ item = [t \in Threads |-> NoItem]
    /\ iter = [t \in Threads |-> NoIter]
    /\ ret = [t \in Threads |-> Running]
    /\ called = [t \in Threads |-> FALSE]
    /\ wrote = [t \in Threads |-> FALSE]
    /\ calls = <<>>
    /\ shutHandles = {}
    /\ ncalls = 0
    /\ serial = TRUE
    /\ hass = HassBeforeSetup

\* async_setup_ads_integration, had it gone on after logging the failed
\* connection.
async_setup_ads_integration_GoesOn ==
    /\ hass.setup = Running
    /\ \E res \in ClientResults :
           hass' = [HassAfterSetup EXCEPT !.hub = (res = "ok")]
    /\ UNCHANGED <<devices, notification_items, lock, client, pc, op, arg, item, iter,
                   ret, called, wrote, calls, shutHandles, ncalls, serial>>

\* async_setup_ads_integration: AdsHub(client) opens the connection; on
\* ADSError the error is logged and False returned; else the hub is stored
\* in hass.data, its shutdown is set to listen for the stop event, the write
\* service is registered, and True returned.
async_setup_ads_integration ==
    /\ hass.setup = Running
    /\ \E res \in ClientResults :
           IF res = "ok"
           THEN hass' = HassAfterSetup
           ELSE hass' = [hass EXCEPT !.setup = "False"]
    /\ UNCHANGED <<devices, notification_items, lock, client, pc, op, arg, item, iter,
                   ret, called, wrote, calls, shutHandles, ncalls, serial>>

NextSetup ==
    \/ async_setup_ads_integration
    \/ Next

SpecSetup == InitSetup /\ [][NextSetup]_vars

\* ------------------------------------------------------------------ unload

CallUnload(t) ==
    Start(t, "async_unload_entry", "unload_check", NoArg)

\* async_unload_entry returns False when hass.data holds no hub or the hub's
\* device list is not empty; else it calls the hub's shutdown.
UnloadCheck(t) ==
    /\ pc[t] = "unload_check"
    /\ IF "DATA_ADS" \notin hass.data \/ Len(devices) > 0
       THEN Finish(t, "False")
       ELSE /\ pc' = [pc EXCEPT ![t] = "shut_iter"]
            /\ UNCHANGED ret
    /\ UNCHANGED <<hubVars, op, arg, item, iter, calls, shutHandles, ncalls, serial, hass>>
    /\ Observe(t)

\* del hass.data[DATA_ADS], and True is returned.
UnloadDel(t) ==
    /\ pc[t] = "unload_del"
    /\ IF "DATA_ADS" \in hass.data
       THEN /\ hass' = [hass EXCEPT !.data = @ \ {"DATA_ADS"}]
            /\ Finish(t, "True")
       ELSE /\ Finish(t, "KeyError")
            /\ UNCHANGED hass
    /\ UNCHANGED <<hubVars, op, arg, item, iter, calls, shutHandles, ncalls, serial>>
    /\ Observe(t)

UnloadStep(t) ==
    \/ CallUnload(t) \/ UnloadCheck(t) \/ UnloadDel(t)

NextUnload ==
    \/ \E t \in Workers : UnloadStep(t)
    \/ Next

\* The hub after the setup, with the host's unload and stop events and the
\* hub's callers acting one at a time.
SpecUnload == InitSeq /\ [][NextUnload]_vars

\* ---------------------------------------------------------------- decoding
\* The notification handler's decoding, applied to the payloads of one
\* stored subscription of each type.

\* The type tags an entity can be configured with.
ADS_TYPEMAP ==
    { PLCTYPE_BOOL, PLCTYPE_BYTE, PLCTYPE_INT, PLCTYPE_UINT, PLCTYPE_SINT,
      PLCTYPE_USINT, PLCTYPE_DINT, PLCTYPE_UDINT, PLCTYPE_WORD, PLCTYPE_DWORD,
      PLCTYPE_REAL, PLCTYPE_LREAL, PLCTYPE_STRING, PLCTYPE_TIME, PLCTYPE_DATE,
      PLCTYPE_DT, PLCTYPE_TOD }

\* Values of a type tag's range: its bounds, the values next to zero, and
\* the values at which a reading of the other signedness differs.
TagValues(plc_datatype) ==
    CASE plc_datatype = "c_bool" -> {Value("bool", 0, 0, <<>>), Value("bool", 0, 1, <<>>)}
      [] plc_datatype = "c_ubyte" -> {IntValue(x) : x \in {0, 1, 127, 128, 255}}
      [] plc_datatype = "c_int8" -> {IntValue(x) : x \in {-128, -1, 0, 1, 127}}
      [] plc_datatype = "c_uint16" -> {IntValue(x) : x \in {0, 1, 32767, 32768, 65535}}
      [] plc_datatype = "c_int16" -> {IntValue(x) : x \in {-32768, -1, 0, 1, 32767}}
      [] plc_datatype = "c_uint32" ->
             { Value("int", 0, 0, <<>>), Value("int", 0, 1, <<>>),
               Value("int", 32767, 65535, <<>>), Value("int", 32768, 0, <<>>),
               Value("int", 65535, 65535, <<>>) }
      [] plc_datatype = "c_int32" ->
             { Value("int", -32768, 0, <<>>), Value("int", -1, 65535, <<>>),
               Value("int", 0, 0, <<>>), Value("int", 0, 1, <<>>),
               Value("int", 32767, 65535, <<>>) }
      [] plc_datatype = "c_float" ->
             { Value("float32", 0, 0, <<0, 0, 0, 0>>),
               Value("float32", 0, 0, <<0, 0, 128, 63>>),
               Value("float32", 0, 0, <<0, 0, 200, 194>>) }
      [] plc_datatype = "c_double" ->
             { Value("float64", 0, 0, <<0, 0, 0, 0, 0, 0, 0, 0>>),
               Value("float64", 0, 0, <<0, 0, 0, 0, 0, 0, 240, 63>>),
               Value("float64", 0, 0, <<0, 0, 0, 0, 0, 0, 89, 192>>) }

\* The little-endian buffer of the tag's width that holds the value v:
\* two's complement for the integers, one byte 0 or 1 for a boolean, the
\* IEEE 754 bytes for a float.
Encode(plc_datatype, v) ==
    IF v.kind \in {"float32", "float64"} THEN v.s
    ELSE SubSeq(<< v.lo % 256, v.lo \div 256, v.hi % 256, (v.hi \div 256) % 256 >>,
                1, Sizeof(plc_datatype))

\* The bytes of string payloads: zero, an ASCII letter, and the two bytes of
\* a two-byte UTF-8 sequence, each of which alone is malformed.
StringBytes == {0, 65, 195, 169}

\* The byte strings of length n over a set of bytes.
RECURSIVE BytesOf(_, _)
BytesOf(bytes, n) ==
    IF n = 0 THEN {<<>>}
    ELSE {Append(s, b) : s \in BytesOf(bytes, n - 1), b \in bytes}

\* The payloads the decoding of a type is applied to: the encodings of the
\* values of a numeric type, and every short byte string for a string and for
\* a type that is not known (the handler reads cbSampleSize bytes, whatever
\* size the subscription asked for).
DecodePayloads(plc_datatype) ==
    IF plc_datatype = PLCTYPE_STRING
    THEN UNION {BytesOf(StringBytes, n) : n \in 0..MaxPayloadLen}
    ELSE IF plc_datatype \in ADS_TYPEMAP
    THEN {Encode(plc_datatype, v) : v \in TagValues(plc_datatype)}
    ELSE UNION {BytesOf(SampleBytes, n) : n \in 0..MaxPayloadLen}

\* A hub with one subscription stored, of any type, on which the
\* notification handler has looked its record up and is about to decode the
\* payload it was called with.
InitDecode ==
    \E plc_datatype \in ADS_TYPEMAP \cup {PLCTYPE_ARR2} :
        \E data \in DecodePayloads(plc_datatype) :
            LET stored == NotificationItem(1, UserHandle("d2"), "d2", plc_datatype, "cb4")
            IN /\ devices = <<>>
               /\ notification_items = (1 :> stored)
               /\ lock = Free
               /\ client = [handles |-> 1, removed |-> {}, twice |-> {}, closes |-> 0]
               /\ pc = [t \in Threads |-> IF t = Notifier THEN "notif_decode" ELSE "idle"]
               /\ op = [t \in Threads |->
                             IF t = Notifier THEN "_device_notification_callback" ELSE ""]
               /\ arg = [t \in Threads |->
                              IF t = Notifier
                              THEN [NoArg EXCEPT !.hnotify = 1, !.data = data]
                              ELSE NoArg]
               /\ item = [t \in Threads |-> IF t = Notifier THEN stored ELSE NoItem]
               /\ iter = [t \in Threads |-> NoIter]
               /\ ret = [t \in Threads |-> Running]
               /\ called = [t \in Threads |-> FALSE]
               /\ wrote = [t \in Threads |-> FALSE]
               /\ calls = <<>>
               /\ shutHandles = {}
               /\ ncalls = 2
               /\ serial = TRUE
               /\ hass = HassAfterSetup

\* The handler decodes the payload it was called with and calls the callback.
DecodeData(t) ==
    /\ pc[t] = "notif_decode"
    /\ Dispatch(t, arg[t].data)
    /\ UNCHANGED <<hubVars, op, arg, item, iter, shutHandles, ncalls, serial, hass>>
    /\ Observe(t)

NextDecode ==
    \/ DecodeData(Notifier)
    \/ Return(Notifier)

SpecDecode == InitDecode /\ [][NextDecode]_vars


\* -------------------------------------------------------------------- claims

\* Thread t takes a step that leaves position label.
Leaves(t, label) == pc[t] = label /\ pc'[t] # label

\* The names of the stored subscriptions.
SubscribedNames(d) == {d[h].name : h \in DOMAIN d}

\* C1: when shutdown() returns the subscription set is empty, and a
\* notification for a handle that was subscribed before the shutdown invokes
\* no callback afterwards.
C1_ShutdownEmptiesSubscriptions ==
    [][ /\ \A t \in Workers :
              (Leaves(t, "shut_close_call") /\ pc'[t] = "done")
                  => DOMAIN notification_items' = {}
        /\ (Leaves(Notifier, "notif_decode") /\ calls' # <<>>)
              => arg[Notifier].hnotify \notin shutHandles ]_vars

\* C2: a thread that is inside a client call made by read_by_name,
\* write_by_name, add_device_notification or del_device_notification holds
\* the hub's lock.
C2_ClientCallsUnderLock ==
    \A t \in Threads :
        pc[t] \in {"read_call", "write_call", "add_call", "del_call"} => lock = t

\* C3: at most one thread is inside the client's read or write call at any
\* time.
C3_ReadWriteNeverInterleave ==
    Cardinality({t \in Threads : pc[t] \in {"read_call", "write_call"}}) <= 1

\* One thread is inside the client's read call while another, which has
\* called write_by_name, waits for the lock.
C3_Witness ==
    \E t, u \in Workers : pc[t] = "read_call" /\ pc[u] = "write_lock"

\* C4: when unregister_device(d) returns for a registered device d, no stored
\* subscription has the name d.
C4_UnregisterLeavesNoSubscription ==
    [][ \A t \in Workers :
            (Leaves(t, "unreg_remove") /\ ret'[t] = "None")
                => arg[t].name \notin SubscribedNames(notification_items') ]_vars

\* C5: the handler's lookup of a handle that is not a key of the subscription
\* set ends the handler: no callback is invoked, nothing is raised, and the
\* subscription set and the device list stay as they are.
C5_UnknownHandleDropped ==
    [][ (/\ Leaves(Notifier, "notif_lookup")
         /\ arg[Notifier].hnotify \notin DOMAIN notification_items)
            => /\ pc'[Notifier] = "done"
               /\ ret'[Notifier] = "None"
               /\ calls' = <<>>
               /\ ~wrote'[Notifier]
               /\ notification_items' = notification_items
               /\ devices' = devices ]_vars

\* A notification was dropped while subscriptions were stored.
C5_Witness ==
    /\ pc[Notifier] = "done"
    /\ arg[Notifier].hnotify \notin DOMAIN notification_items
    /\ DOMAIN notification_items # {}
    /\ calls = <<>>

\* C6: the handler's lookup of a handle h that is stored takes the record
\* stored under h and invokes nothing yet; its next step makes exactly one
\* invocation: that record's callback, called with that record's name and the
\* payload decoded by that record's type; the handler ends with it, or when
\* the hub method the callback calls has returned, with no other invocation.
C6_StoredCallbackInvokedOnce ==
    [][ LET h == arg[Notifier].hnotify
        IN /\ (Leaves(Notifier, "notif_lookup") /\ h \in DOMAIN notification_items)
                 => /\ pc'[Notifier] = "notif_decode"
                    /\ item'[Notifier] = notification_items[h]
                    /\ calls' = <<>>
           /\ Leaves(Notifier, "notif_decode")
                 => /\ pc'[Notifier] \in {"done", "read_lock", "write_lock"}
                    /\ calls' = <<Invocation(item[Notifier].callback,
                                             item[Notifier].name,
                                             Decode(item[Notifier].plc_datatype,
                                                    arg'[Notifier].data))>>
           /\ (pc[Notifier] \in {"notif_decode", "read_lock", "read_call",
                                 "write_lock", "write_call"}
                  /\ pc'[Notifier] = "done")
                 => /\ ret'[Notifier] = "None"
                    /\ Len(calls') = 1
           /\ pc[Notifier] \in {"read_lock", "read_call", "write_lock", "write_call"}
                 => calls' = calls ]_vars

\* The handler has invoked one callback while another subscription, with
\* another callback, is stored as well.
C6_Witness ==
    /\ pc[Notifier] = "done"
    /\ Len(calls) = 1
    /\ \E k \in DOMAIN notification_items :
           /\ k # arg[Notifier].hnotify
           /\ notification_items[k].callback # calls[1].callback

\* C7: the step of add_device_notification on which the client call ends
\* without a new handle (ADSError) ends the method: nothing is raised, the
\* call has not changed the subscription set, and the lock is free.
C7_RejectedSubscribeStoresNothing ==
    [][ \A t \in Workers :
            (Leaves(t, "add_call") /\ client'.handles = client.handles)
                => /\ pc'[t] = "done"
                   /\ ret'[t] = "None"
                   /\ ~wrote'[t]
                   /\ notification_items' = notification_items
                   /\ lock' = Free ]_vars

\* A subscribe was rejected while a subscription was stored.
C7_Witness ==
    \E t \in Workers :
        /\ pc[t] = "done"
        /\ op[t] = "add_device_notification"
        /\ called[t]
        /\ item[t] = NoItem
        /\ DOMAIN notification_items # {}

\* C8: the storing step of add_device_notification adds, under the handle h
\* the client has just handed out, the record (h, user handle, name, type,
\* callback) of the call; h was no key before, and the records under the
\* other handles are unchanged.
C8_SubscribeAddsOneRecord ==
    [][ \A t \in Workers :
            Leaves(t, "add_store")
                => LET h == client.handles
                   IN /\ h \notin DOMAIN notification_items
                      /\ DOMAIN notification_items' = DOMAIN notification_items \cup {h}
                      /\ notification_items'[h]
                             = NotificationItem(h, UserHandle(arg[t].name), arg[t].name,
                                                arg[t].plc_datatype, arg[t].callback)
                      /\ \A k \in DOMAIN notification_items :
                             notification_items'[k] = notification_items[k] ]_vars

\* An add_device_notification has stored its record beside an earlier one.
C8_Witness ==
    \E t \in Workers :
        /\ pc[t] = "done"
        /\ op[t] = "add_device_notification"
        /\ wrote[t]
        /\ item[t].hnotify \in DOMAIN notification_items
        /\ Cardinality(DOMAIN notification_items) >= 2

\* C9: the lookup of del_device_notification(name), when no stored
\* subscription has that name, ends the method: nothing is raised, the call
\* has not entered the client library, and the subscription set and the
\* device list stay as they are.
C9_UnsubscribeUnknownIsNoOp ==
    [][ \A t \in Workers :
            (/\ Leaves(t, "del_lookup")
             /\ op[t] = "del_device_notification"
             /\ arg[t].name \notin SubscribedNames(notification_items))
                => /\ pc'[t] = "done"
                   /\ ret'[t] = "None"
                   /\ ~called'[t]
                   /\ ~wrote'[t]
                   /\ client' = client
                   /\ notification_items' = notification_items
                   /\ devices' = devices ]_vars

\* A del_device_notification found no subscription of its name among the
\* stored ones.
C9_Witness ==
    \E t \in Workers :
        /\ pc[t] = "done"
        /\ op[t] = "del_device_notification"
        /\ ~called[t]
        /\ DOMAIN notification_items # {}
        /\ arg[t].name \notin SubscribedNames(notification_items)

\* C10: the membership test of unregister_device(d), when d is not in the
\* device list, ends the method: nothing is raised, the call has not entered
\* the client library, and the device list and the subscription set stay as
\* they are.
C10_UnregisterUnknownIsNoOp ==
    [][ \A t \in Workers :
            (Leaves(t, "unreg_check") /\ ~In(arg[t].name, devices))
                => /\ pc'[t] = "done"
                   /\ ret'[t] = "None"
                   /\ ~called'[t]
                   /\ ~wrote'[t]
                   /\ client' = client
                   /\ notification_items' = notification_items
                   /\ devices' = devices ]_vars

\* An unregister_device of a device that is not registered has returned while
\* another device is registered and a subscription of its own name is stored.
C10_Witness ==
    \E t \in Workers :
        /\ pc[t] = "done"
        /\ op[t] = "unregister_device"
        /\ ~In(arg[t].name, devices)
        /\ ~wrote[t]
        /\ devices # <<>>
        /\ arg[t].name \in SubscribedNames(notification_items)

\* The number of times device d is in the device list.
Count(list, d) == Cardinality({i \in 1..Len(list) : list[i] = d})

\* C11: with callers calling one at a time, the device list never holds a
\* device twice; register_device of a device that is in the list returns
\* with the list as it was, and of one that is not appends it; and when
\* unregister_device(d) of a registered d returns, d is not in the list.
C11_RegisterIdempotent ==
    [][ /\ \A d \in Names : Count(devices', d) <= 1
        /\ \A t \in Workers :
              /\ (Leaves(t, "reg_check") /\ In(arg[t].name, devices))
                    => /\ pc'[t] = "done"
                       /\ ret'[t] = "None"
                       /\ ~wrote'[t]
                       /\ devices' = devices
              /\ Leaves(t, "reg_append")
                    => /\ ~In(arg[t].name, devices)
                       /\ devices' = Append(devices, arg[t].name)
              /\ Leaves(t, "unreg_remove")
                    => /\ ret'[t] = "None"
                       /\ ~In(arg[t].name, devices') ]_vars

\* A register_device of a device that was registered already has returned
\* without changing anything, beside another registered device.
C11_Witness ==
    \E t \in Workers :
        /\ pc[t] = "done"
        /\ op[t] = "register_device"
        /\ ~wrote[t]
        /\ In(arg[t].name, devices)
        /\ Len(devices) = 2

\* C12, as stated: every call unregister_device(d) goes on from its
\* membership test to the removal of d's subscription.
C12_EveryUnregisterAttemptsRemoval ==
    [][ \A t \in Workers :
            Leaves(t, "unreg_check") => pc'[t] = "del_lock" ]_vars

\* C12, amended: unregister_device(d) of a d that is in the device list goes
\* on from its membership test to del_device_notification(d) with the list
\* as it was; it reaches the removal of d from the list only out of
\* del_device_notification, which by then has either found no subscription
\* named d or issued the client removal for the one it found; and no other
\* step of the call changes the device list.
C12_RegisteredUnregisterRemovesSubscriptionFirst ==
    [][ \A t \in Workers :
            op'[t] = "unregister_device"
                => /\ (Leaves(t, "unreg_check") /\ In(arg[t].name, devices))
                         => /\ pc'[t] = "del_lock"
                            /\ devices' = devices
                   /\ (pc'[t] = "unreg_remove" /\ pc[t] # "unreg_remove")
                         => \/ /\ pc[t] = "del_lookup"
                               /\ arg[t].name \notin SubscribedNames(notification_items)
                               /\ ~called[t]
                            \/ /\ pc[t] = "del_pop"
                               /\ called[t]
                               /\ item[t].name = arg[t].name
                               /\ item[t].hnotify \in client.removed
                   /\ (pc'[t] # pc[t] /\ devices' # devices)
                         => pc[t] = "unreg_remove" ]_vars

\* An unregister_device(d) is about to take d out of the device list, having
\* had the client remove d's subscription and deleted its record.
C12_Witness ==
    \E t \in Workers :
        /\ pc[t] = "unreg_remove"
        /\ In(arg[t].name, devices)
        /\ called[t]
        /\ wrote[t]
        /\ item[t].hnotify \in client.removed
        /\ item[t].hnotify \notin DOMAIN notification_items

\* C13: the step on which the client call of read_by_name or write_by_name
\* ends, with a value or with ADSError, ends the method: it returns the
\* value or None and raises nothing, the device list and the subscription
\* set are as they were, and the lock is free.
C13_ReadWriteCatchADSError ==
    [][ \A t \in Threads :
            (Leaves(t, "read_call") \/ Leaves(t, "write_call"))
                => /\ lock = t
                   /\ lock' = Free
                   /\ pc'[t] = "done"
                   /\ ret'[t] \in {"value", "None"}
                   /\ ~wrote'[t]
                   /\ devices' = devices
                   /\ notification_items' = notification_items ]_vars

\* A read_by_name has returned None after its client call, the lock is free,
\* and the subscriptions and devices that were stored are stored still.
C13_Witness ==
    \E t \in Workers :
        /\ pc[t] = "done"
        /\ op[t] = "read_by_name"
        /\ called[t]
        /\ ret[t] = "None"
        /\ lock = Free
        /\ DOMAIN notification_items # {}

\* C14: with callers calling one at a time, shutdown() takes the stored
\* records in turn and enters the client's removal for each; whatever the
\* removal's outcome the loop goes on; when no record is left to take, every
\* stored handle has had its removal issued and close() is entered, which
\* happens at no other step of the call; and whatever close()'s outcome,
\* shutdown returns None.
C14_ShutdownRemovesAllThenCloses ==
    [][ \A t \in Workers :
            /\ Leaves(t, "shut_next")
                  => IF IterRest(t) = {}
                     THEN /\ pc'[t] = "shut_close_call"
                          /\ client'.closes = client.closes + 1
                          /\ DOMAIN notification_items \subseteq client.removed
                          /\ \A h \in DOMAIN notification_items : h <= iter[t].pos
                     ELSE /\ pc'[t] = "shut_del_call"
                          /\ item'[t].hnotify \in IterRest(t)
                          /\ \A h \in IterRest(t) : item'[t].hnotify <= h
                          /\ item'[t].hnotify \in client'.removed
                          /\ client'.closes = client.closes
            /\ Leaves(t, "shut_del_call")
                  => /\ pc'[t] = "shut_next"
                     /\ client' = client
            /\ Leaves(t, "shut_close_call")
                  => /\ pc'[t] = "done"
                     /\ ret'[t] = "None"
                     /\ client' = client
            /\ (pc'[t] # pc[t] /\ client'.closes # client.closes)
                  => pc[t] = "shut_next" ]_vars

\* The first shutdown() has returned: two records are stored, the client
\* removal was issued for both, and close() was called once.
C14_Witness ==
    \E t \in Workers :
        /\ pc[t] = "done"
        /\ op[t] = "shutdown"
        /\ ret[t] = "None"
        /\ Cardinality(DOMAIN notification_items) = 2
        /\ DOMAIN notification_items \subseteq client.removed
        /\ client.closes = 1

\* C15: with callers calling one at a time, del_device_notification(name)
\* with a stored record of that name enters the client removal for that
\* record's handle while the record is still stored; whatever the removal's
\* outcome the method goes on to its deletion; and the deletion takes that
\* handle's record, which was stored until then, and no other, out of the
\* subscription set.
C15_ClientRemovalThenLocalDelete ==
    [][ \A t \in Workers :
            /\ (/\ Leaves(t, "del_lookup")
                /\ arg[t].name \in SubscribedNames(notification_items))
                  => /\ pc'[t] = "del_call"
                     /\ item'[t].name = arg[t].name
                     /\ item'[t].hnotify \in DOMAIN notification_items
                     /\ notification_items[item'[t].hnotify] = item'[t]
                     /\ item'[t].hnotify \in client'.removed
                     /\ notification_items' = notification_items
            /\ Leaves(t, "del_call")
                  => /\ pc'[t] = "del_pop_lock"
                     /\ notification_items' = notification_items
            /\ Leaves(t, "del_pop")
                  => LET h == item[t].hnotify
                     IN /\ h \in client.removed
                        /\ h \in DOMAIN notification_items
                        /\ DOMAIN notification_items' = DOMAIN notification_items \ {h}
                        /\ \A k \in DOMAIN notification_items' :
                               notification_items'[k] = notification_items[k] ]_vars

\* A del_device_notification has had the client remove its record's
\* notification and deleted the record, and another record is stored still.
C15_Witness ==
    \E t \in Workers :
        /\ pc[t] = "done"
        /\ op[t] = "del_device_notification"
        /\ called[t]
        /\ wrote[t]
        /\ item[t].hnotify \in client.removed
        /\ item[t].hnotify \notin DOMAIN notification_items
        /\ DOMAIN notification_items # {}

\* C16: the notification handler's thread holds the hub's lock only at the
\* subscription lookup and inside the client call of a read_by_name or
\* write_by_name that the subscriber callback makes: it does not hold it
\* when the payload is decoded and the callback is called, nor when the
\* callback's read_by_name or write_by_name comes to take the lock, which
\* therefore is free or held by another thread.
C16_HandlerHoldsLockOnlyForLookup ==
    /\ lock = Notifier
          => pc[Notifier] \in {"notif_lookup", "read_call", "write_call"}
    /\ pc[Notifier] \in {"notif_decode", "read_lock", "write_lock"}
          => lock # Notifier

\* The subscriber callback, running in the notification handler, is inside
\* the client call of its read_by_name, holding the lock it has taken.
C16_Witness ==
    /\ op[Notifier] = "_device_notification_callback"
    /\ pc[Notifier] = "read_call"
    /\ lock = Notifier
    /\ Len(calls) = 1
    /\ CallbackCalls(calls[1].callback) = "read_by_name"

\* The handler has decoded the payload of a subscription of the given type
\* and is through with the callback.
Decoded(plc_datatype) ==
    /\ pc[Notifier] = "done"
    /\ op[Notifier] = "_device_notification_callback"
    /\ item[Notifier].plc_datatype = plc_datatype

\* The one invocation the handler has made of its record's callback, with
\* the value v.
Invoked(v) ==
    calls = <<Invocation(item[Notifier].callback, item[Notifier].name, v)>>

\* C17: for every supported numeric type tag and every value v of the tag's
\* range, the handler, given the little-endian buffer of the tag's width
\* that encodes v, calls the callback with v.
C17_DecodeRoundTrips ==
    \A plc_datatype \in ADS_TYPEMAP \ {PLCTYPE_STRING} :
        \A v \in TagValues(plc_datatype) :
            (Decoded(plc_datatype) /\ arg[Notifier].data = Encode(plc_datatype, v))
                => /\ ret[Notifier] = "None"
                   /\ Invoked(v)

\* The bytes of the payload that precede its first zero byte.
BeforeFirstZero(data) ==
    LET zeros == {i \in 1..Len(data) : data[i] = 0}
    IN IF zeros = {} THEN data
       ELSE SubSeq(data, 1, (CHOOSE i \in zeros : \A j \in zeros : i <= j) - 1)

\* C18, as stated: for a STRING subscription the value the callback is
\* called with is, character for byte, the payload bytes that precede the
\* first zero byte.
C18_StringIsBytesBeforeFirstZero ==
    Decoded(PLCTYPE_STRING)
        => Invoked(Value("str", 0, 0, BeforeFirstZero(arg[Notifier].data)))

\* C18, amended: for a STRING subscription the value the callback is called
\* with is the UTF-8 decoding of the payload bytes that precede the first
\* zero byte, in which a malformed sequence leaves no character: it is those
\* bytes themselves when they are all ASCII, it is never longer than they
\* are, and it is empty when the first byte is zero.
C18_StringIsDecodedPrefix ==
    Decoded(PLCTYPE_STRING)
        => LET prefix == BeforeFirstZero(arg[Notifier].data)
           IN /\ ret[Notifier] = "None"
              /\ Invoked(Value("str", 0, 0, Utf8DecodeIgnore(prefix)))
              /\ Len(calls[1].value.s) <= Len(prefix)
              /\ (\A i \in 1..Len(prefix) : prefix[i] < 128)
                    => calls[1].value.s = prefix
              /\ (arg[Notifier].data # <<>> /\ arg[Notifier].data[1] = 0)
                    => calls[1].value.s = <<>>

\* A string payload with a letter before its zero byte and one after it was
\* decoded to the one letter.
C18_Witness ==
    /\ Decoded(PLCTYPE_STRING)
    /\ arg[Notifier].data = <<65, 0, 65>>
    /\ Len(calls) = 1
    /\ calls[1].value.s = <<65>>

\* C19: for a subscription whose type tag is none of the known ones the
\* handler calls the stored callback once, with the payload's bytes, as many
\* and the same as delivered, and returns.
C19_UnknownTypePassesRawBytes ==
    \A plc_datatype \in {PLCTYPE_ARR2} :
        Decoded(plc_datatype)
            => /\ plc_datatype # PLCTYPE_BOOL
               /\ plc_datatype # PLCTYPE_STRING
               /\ ~InUnpackFormats(plc_datatype)
               /\ ret[Notifier] = "None"
               /\ Invoked(Value("bytearray", 0, 0, arg[Notifier].data))

\* The callback of a subscription of an unknown type was called with a
\* payload that has a zero byte in it.
C19_Witness ==
    /\ Decoded(PLCTYPE_ARR2)
    /\ Len(calls) = 1
    /\ calls[1].value.kind = "bytearray"
    /\ calls[1].value.s = <<65, 0, 200>>

\* C20: the step of async_setup_ads_integration on which opening the
\* connection fails returns False with no hub created, nothing stored in the
\* host data, no listener and no service registered; and after it none of
\* these ever changes and no hub method is ever called.
C20_FailedOpenAbortsSetup ==
    [][ /\ (hass.setup = Running /\ hass'.setup # Running /\ ~hass'.hub)
              => /\ hass'.setup = "False"
                 /\ hass'.data = {}
                 /\ hass'.listeners = {}
                 /\ hass'.services = {}
        /\ hass.setup = "False"
              => /\ hass' = hass
                 /\ \A t \in Threads : pc'[t] = "idle" ]_vars

\* The setup has returned False: no hub exists, and the host has no data, no
\* listener and no service of the integration.
C20_Witness ==
    /\ hass.setup = "False"
    /\ ~hass.hub
    /\ hass.data = {}
    /\ hass.listeners = {}
    /\ hass.services = {}

\* The positions at which a thread waits for the hub's lock.
LockWaitPcs ==
    {"read_lock", "write_lock", "add_lock", "del_lock", "del_pop_lock", "notif_lock"}

\* The positions at which a thread is inside a with self._lock block.
LockHeldPcs ==
    {"read_call", "write_call", "add_call", "add_store", "del_lookup", "del_pop",
     "notif_lookup"}

\* C21: the lock is held only by a thread inside one of the with blocks and
\* is free whenever no hub method is running; with every thread scheduled in
\* the end and every client call returning, a thread that waits for the lock
\* comes to hold it, and every call that was begun returns.
C21_LockFreedAndAcquired ==
    /\ [](\A t \in Threads : lock = t => pc[t] \in LockHeldPcs)
    /\ []((\A t \in Threads : pc[t] \in {"idle", "done"}) => lock = Free)
    /\ \A t \in Threads : (pc[t] \in LockWaitPcs) ~> (lock = t)
    /\ \A t \in Threads : (pc[t] # "idle") ~> (pc[t] = "done")

\* The subscriber callback's read_by_name waits in the notification handler
\* for the lock, which a thread that is subscribing holds inside its client
\* call.
C21_Witness ==
    /\ pc[Notifier] = "read_lock"
    /\ Len(calls) = 1
    /\ \E t \in Workers :
           /\ pc[t] = "add_call"
           /\ lock = t

\* C22: every handle the client has created, and for which no removal was
\* issued, is a key of the subscription set or is about to be stored by the
\* add_device_notification that obtained it and still holds the lock; so the
\* handler's lookup for such a handle, which is made holding the lock, finds
\* the record and goes on to decode.
C22_CreatedHandleIsFound ==
    [][ /\ \A h \in (1..client'.handles) \ client'.removed :
              \/ h \in DOMAIN notification_items'
              \/ \E t \in Workers : /\ pc'[t] = "add_store"
                                    /\ item'[t].hnotify = h
                                    /\ lock' = t
        /\ LET h == arg[Notifier].hnotify
           IN (/\ Leaves(Notifier, "notif_lookup")
               /\ h \in (1..client.handles) \ client.removed)
                 => /\ lock = Notifier
                    /\ pc'[Notifier] = "notif_decode"
                    /\ item'[Notifier].hnotify = h
                    /\ item'[Notifier] = notification_items[h] ]_vars

\* A notification for the handle the client has just created waits for the
\* lock while the add_device_notification that obtained the handle has not
\* stored its record yet.
C22_Witness ==
    /\ pc[Notifier] = "notif_lock"
    /\ \E t \in Workers :
           /\ pc[t] = "add_store"
           /\ lock = t
           /\ item[t].hnotify = arg[Notifier].hnotify
           /\ arg[Notifier].hnotify \notin DOMAIN notification_items

\* C23: the client's del_device_notification is entered at most once for
\* each handle.
C23_RemovalIssuedOncePerHandle ==
    client.twice = {}

\* C24: while a shutdown() is in its loop over the subscription set, no step
\* adds a record to the set or deletes one from it.
C24_NoChangeDuringShutdownLoop ==
    [][ (\E t \in Workers : pc[t] \in {"shut_next", "shut_del_call"})
            => notification_items' = notification_items ]_vars

\* C25: the handler invokes a callback only of a subscription that is
\* stored: the record of a subscription that del_device_notification has
\* deleted is gone with the step on which that call returns, so its callback
\* is not invoked after the return.
C25_NoCallbackAfterUnsubscribe ==
    [][ (Leaves(Notifier, "notif_decode") /\ calls' # <<>>)
            => /\ item[Notifier].hnotify \in DOMAIN notification_items
               /\ notification_items[item[Notifier].hnotify] = item[Notifier] ]_vars

\* C26, first part: async_unload_entry, called while a device is registered,
\* returns False, with the hub still in the host data, no shutdown begun and
\* the connection as it was; it calls shutdown only with the device list
\* empty.
C26_UnloadKeepsHubWithDevices ==
    [][ \A t \in Workers :
            Leaves(t, "unload_check")
                => IF Len(devices) > 0
                   THEN /\ pc'[t] = "done"
                        /\ ret'[t] = "False"
                        /\ hass' = hass
                        /\ client' = client
                   ELSE pc'[t] = "shut_iter" => "DATA_ADS" \in hass.data ]_vars

\* C26: async_unload_entry shuts the hub down only with no device registered
\* (with a device registered it returns False and changes nothing), and over
\* the host's unloads and its one stop event the connection's close() is
\* entered at most once.
C26_UnloadOnlyWhenEmptyAndShutdownOnce ==
    /\ C26_UnloadKeepsHubWithDevices
    /\ [](hass.stops <= 1 => client.closes <= 1)

====
